---- MODULE Spec2Model ----
(***************************************************************************)
(* Model of the two programs of the repository:                            *)
(*   - src/toolstobe.py : the VS Code tool wrappers.  One invocation of a  *)
(*     tool is a run of the state machine from "idle" to "done"; every     *)
(*     call that leaves the process (subprocess, socket, HTTP request,     *)
(*     permission manager) is one step whose outcome the environment       *)
(*     chooses, and is appended to trace.                                  *)
(*   - src/test3.py : the CLI demo; one run prints to out.                 *)
(* Strings built by f-strings are sequences of pieces; a piece is either a *)
(* literal of the source or a value.  The leading status glyph of the      *)
(* availability messages is left out of the literals.                      *)
(***************************************************************************)
EXTENDS Integers, Sequences, FiniteSets, TLC

VARIABLES
    pc,             \* position of the running program
    tool,           \* the tool function being invoked, or "none"
    arg,            \* pattern / file_path / filename argument of the tool
    codeOutcome,    \* outcome of subprocess.run(['code','--version'])
    health,         \* outcome of GET /health
    sock,           \* outcome of the socket fallback
    code_available, \* result of check_code_command()
    api_available,  \* result of check_vscode_api()
    perm,           \* outcome of permission_manager.get_permission
    preview,        \* outcome of the optional GET /preview or GET /diff
    response,       \* response of the operation's request
    exc,            \* the exception in flight inside the tool's try block
    result,         \* what the invocation produced
    listed,         \* number of file entries in the panel of vscode_list_files
    trace,          \* calls that left the process, in order
    argv,           \* sys.argv of the CLI script
    out             \* lines printed by the CLI script, one per print call

vars == <<pc, tool, arg, codeOutcome, health, sock, code_available,
          api_available, perm, preview, response, exc, result, listed,
          trace, argv, out>>

toolVars == <<tool, arg, codeOutcome, health, sock, code_available,
              api_available, perm, preview, response, exc, result, listed,
              trace>>

cliVars == <<argv, out>>

(***************************************************************************)
(* Bounds                                                                  *)
(***************************************************************************)
MaxFiles == 52      \* longest 'files' list a response carries
MaxTotal == 52      \* largest 'total' a response carries
MaxArgs == 3        \* most command-line arguments after the script name

(***************************************************************************)
(* Program constants                                                       *)
(***************************************************************************)
DisplayLimit == 50
HTTP_OK == 200

None == "None"

HealthCheck == "vscode_health_check"
GetContext == "vscode_get_context"
GetSelection == "vscode_get_selection"
ListFiles == "vscode_list_files"
ReadFile == "vscode_read_file"
CreateFile == "vscode_create_file"
EditFile == "vscode_edit_file"

\* The tool functions that call ensure_vscode_available inside try/except.
Wrappers == {GetContext, GetSelection, ListFiles, ReadFile, CreateFile, EditFile}

VSCODE_TOOLS == {HealthCheck} \cup Wrappers

StatusCodes == {HTTP_OK, 201, 404, 500}

ToolArgs == {"a.py", "notes"}

(***************************************************************************)
(* Events of trace                                                         *)
(***************************************************************************)
SubprocessEvent == [kind |-> "subprocess", what |-> "code --version"]
SocketEvent == [kind |-> "socket", what |-> "localhost:8090"]
HttpEvent(method, path) == [kind |-> "http", what |-> <<method, path>>]
PermEvent(ptype) == [kind |-> "perm", what |-> ptype]

Path(e) == e.what[2]
Method(e) == e.what[1]

(***************************************************************************)
(* Exceptions and results                                                  *)
(***************************************************************************)
Exception(type, msg) == [type |-> type, msg |-> msg]
NoExc == Exception(None, <<>>)

Str(e) == IF e.type = "VSCodeAvailabilityError" THEN e.msg ELSE <<"str", e.type>>

NoResult == [kind |-> "none", via |-> None, msg |-> <<>>]
Returned(via, msg) == [kind |-> "returned", via |-> via, msg |-> msg]
Raised(e) == [kind |-> "raised", via |-> None, msg |-> Str(e)]

display_rich_error(error_msg) == Returned("display_rich_error", error_msg)
display_rich_success(success_msg) == Returned("display_rich_success", success_msg)

(***************************************************************************)
(* Availability probe                                                      *)
(***************************************************************************)
\* check_code_command: the subprocess ran and exited 0.
CodeOutcomes == {"exit0", "exit1", "raises"}
check_code_command(outcome) == outcome = "exit0"

\* check_vscode_api, try branch: the GET returned; its status decides.
HealthStatusOk(status) == status = HTTP_OK

\* Mutant: `return result != 0`.
SocketOpen_Nonzero(outcome) == outcome = "refused"

\* check_vscode_api, except branch: connect_ex returned 0.
SockOutcomes == {"connected", "refused", "raises"}
SocketOpen(outcome) == outcome = "connected"

MsgBoth == <<"VS Code command not found and API not accessible on localhost:8090">>
MsgCode == <<"VS Code command not found (install VS Code and ensure 'code' is in PATH)">>
MsgApi == <<"VS Code extension API not accessible on localhost:8090">>
MsgOk == <<"VS Code is available and connected">>

\* Mutant: available as soon as one of the two probes succeeds.
check_vscode_availability_Either(code, api) ==
    IF ~code /\ ~api THEN <<FALSE, MsgBoth>> ELSE <<TRUE, MsgOk>>

check_vscode_availability(code, api) ==
    IF ~code /\ ~api THEN <<FALSE, MsgBoth>>
    ELSE IF ~code THEN <<FALSE, MsgCode>>
    ELSE IF ~api THEN <<FALSE, MsgApi>>
    ELSE <<TRUE, MsgOk>>

\* ensure_vscode_available: the exception it raises, or NoExc.
ensure_vscode_available(code, api) ==
    LET r == check_vscode_availability(code, api)
    IN  IF ~r[1] THEN Exception("VSCodeAvailabilityError", r[2]) ELSE NoExc

HealthReady == <<"VS Code is available and ready for use">>
HealthNotReady == <<"VS Code is not available - see requirements above">>

\* vscode_health_check: the string it returns.
vscode_health_check(code, api) ==
    IF code /\ api THEN Returned("direct", HealthReady)
    ELSE Returned("direct", HealthNotReady)

(***************************************************************************)
(* Permission gate, preview and endpoints                                  *)
(***************************************************************************)
NeedsPermission(t) == t \in {ReadFile, CreateFile, EditFile}

PermissionTypeOf(t) == IF t = ReadFile THEN "FILE_OPERATIONS" ELSE "FILE_WRITE"

PermOutcomes == {"granted", "denied", "raises"}

\* Mutant: the answer of the permission manager is ignored.
PermissionAllows_Always(outcome) == TRUE

\* `if not permission_manager.get_permission(...)` lets the call through.
PermissionAllows(outcome) == outcome = "granted"

PermissionDenied(t) ==
    IF t = ReadFile THEN <<"Permission denied for file read operation">>
    ELSE IF t = CreateFile THEN <<"Permission denied for file creation">>
    ELSE <<"Permission denied for file edit operation">>

HasPreview(t) == t \in {CreateFile, EditFile}

PreviewPath(t) == IF t = CreateFile THEN "/preview" ELSE "/diff"

Endpoint(t) ==
    CASE t = GetContext -> HttpEvent("GET", "/context")
      [] t = GetSelection -> HttpEvent("GET", "/selection-context")
      [] t = ListFiles -> HttpEvent("GET", "/workspace/files")
      [] t = ReadFile -> HttpEvent("GET", "/file/read")
      [] t = CreateFile -> HttpEvent("POST", "/file/create")
      [] t = EditFile -> HttpEvent("POST", "/file/edit")

\* Mutant: the permission gate is left out.
AfterAvailability_NoGate(t) == IF HasPreview(t) THEN "preview" ELSE "request"

\* Position after ensure_vscode_available() returned normally.
AfterAvailability(t) == IF NeedsPermission(t) THEN "perm" ELSE "request"

\* Position after the permission gate let the call through.
AfterPermission(t) == IF HasPreview(t) THEN "preview" ELSE "request"

ErrorPrefix(t, a) ==
    CASE t = GetContext -> <<"Error getting VS Code context: ">>
      [] t = GetSelection -> <<"Error getting selection context: ">>
      [] t = ListFiles -> <<"Error listing workspace files: ">>
      [] t = ReadFile -> <<"Error reading file ", a, ": ">>
      [] t = CreateFile -> <<"Error creating file ", a, ": ">>
      [] t = EditFile -> <<"Error editing file ", a, ": ">>

\* Mutant: only `except VSCodeAvailabilityError` is written.
Handler_OnlyAvailability(t, a, e) ==
    IF t \in Wrappers /\ e.type = "VSCodeAvailabilityError"
    THEN display_rich_error(Str(e))
    ELSE Raised(e)

\* The except clauses of a tool function: what the invocation produces
\* when exception e leaves the try block.
Handler(t, a, e) ==
    IF t \notin Wrappers THEN Raised(e)
    ELSE IF e.type = "VSCodeAvailabilityError" THEN display_rich_error(Str(e))
    ELSE display_rich_error(ErrorPrefix(t, a) \o Str(e))

(***************************************************************************)
(* Response bodies.  shape: "notjson" (response.json() raises), "nondict"  *)
(* (JSON, but not an object: .get raises AttributeError), "dict".  A field *)
(* is "absent", or a value of the type the code expects, or a value of     *)
(* another type on which the code's next operation raises.                 *)
(***************************************************************************)
NA == "n/a"

\* A numeric or list-valued field: Num(n) is the number n or a list of
\* n entries; Bad is a value of another type (string, null, object).
Num(n) == [k |-> "num", v |-> n]
Absent == [k |-> "absent", v |-> 0]
Bad == [k |-> "bad", v |-> 0]
NoField == [k |-> NA, v |-> 0]

Body(shape, hasActiveEditor, selection, other, total, files, error) ==
    [shape |-> shape, hasActiveEditor |-> hasActiveEditor,
     selection |-> selection, other |-> other, total |-> total,
     files |-> files, error |-> error]

NotJson == Body("notjson", NA, NA, NA, NoField, NoField, NA)
NonDict == Body("nondict", NA, NA, NA, NoField, NoField, NA)
NoBody == Body(NA, NA, NA, NA, NoField, NoField, NA)

\* Lengths and totals around 0 and around the display limit.
Sizes(max) == {n \in 0..max : n <= 2 \/ n >= DisplayLimit - 1}

ContextBodies ==
    {Body("dict", NA, s, o, NoField, NoField, NA) :
        s \in {"absent", "dict", "nondict"}, o \in {"absent", "list", "nonsized"}}

SelectionBodies ==
    {Body("dict", h, s, c, NoField, NoField, NA) :
        h \in {"absent", "true", "false"}, s \in {"absent", "dict", "nondict"},
        c \in {"absent", "dict", "nondict", "badlines"}}

ListBodies ==
    {Body("dict", NA, NA, NA, t, f, NA) :
        t \in {Num(n) : n \in Sizes(MaxTotal)} \cup {Absent, Bad},
        f \in {Num(n) : n \in Sizes(MaxFiles)} \cup {Absent, Bad}}

ReadBodies == {Body("dict", NA, NA, c, NoField, NoField, NA) : c \in {"absent", "str"}}

WriteBodies == {Body("dict", NA, NA, NA, NoField, NoField, e) : e \in {"absent", "message"}}

Bodies(t) ==
    {NotJson, NonDict} \cup
    CASE t = GetContext -> ContextBodies
      [] t = GetSelection -> SelectionBodies
      [] t = ListFiles -> ListBodies
      [] t = ReadFile -> ReadBodies
      [] t \in {CreateFile, EditFile} -> WriteBodies

\* The outcome of an HTTP request: not issued, raised, or a response.
Response(status, body) == [kind |-> "response", status |-> status, body |-> body]
RequestRaises == [kind |-> "raises", status |-> 0, body |-> NoBody]
NoResponse == [kind |-> "none", status |-> 0, body |-> NoBody]

StatusStr(status) == ToString(status)

(***************************************************************************)
(* What each tool does with the response of its request.                   *)
(* The value is <<result, exception, listed>>.                             *)
(***************************************************************************)
Return(r) == <<r, NoExc, 0>>
ReturnListed(r, n) == <<r, NoExc, n>>
Raise(type) == <<NoResult, Exception(type, <<>>), 0>>

\* response.json() followed by the first .get on it.
JsonError(body) ==
    IF body.shape = "notjson" THEN "JSONDecodeError"
    ELSE IF body.shape = "nondict" THEN "AttributeError"
    ELSE None

Min(a, b) == IF a < b THEN a ELSE b

handle_get_context(r) ==
    IF r.status = HTTP_OK THEN
        IF JsonError(r.body) # None THEN Raise(JsonError(r.body))
        ELSE IF r.body.selection = "nondict" THEN Raise("AttributeError")
        ELSE IF r.body.other = "nonsized" THEN Raise("TypeError")
        ELSE Return(Returned("direct", <<"VS Code Context">>))
    ELSE Return(display_rich_error(
             <<"Error getting VS Code context: HTTP ", StatusStr(r.status)>>))

handle_get_selection(r) ==
    IF r.status = HTTP_OK THEN
        IF JsonError(r.body) # None THEN Raise(JsonError(r.body))
        ELSE IF r.body.hasActiveEditor # "true"
            THEN Return(display_rich_error(<<"No active editor in VS Code">>))
        ELSE IF r.body.other = "nondict" THEN Raise("AttributeError")
        ELSE IF r.body.selection = "nondict" THEN Raise("AttributeError")
        ELSE IF r.body.other = "badlines" THEN Raise("AttributeError")
        ELSE Return(Returned("direct",
                 <<"VS Code selection context displayed above">>))
    ELSE Return(display_rich_error(
             <<"Error getting selection context: HTTP ", StatusStr(r.status)>>))

handle_list_files(pattern, r) ==
    IF r.status = HTTP_OK THEN
        IF JsonError(r.body) # None THEN Raise(JsonError(r.body))
        ELSE
          LET files == IF r.body.files = Absent THEN Num(0) ELSE r.body.files
              total == IF r.body.total = Absent THEN Num(0) ELSE r.body.total
          IN  IF total = Num(0) THEN
                  Return(display_rich_error(
                      <<"No files found matching pattern '", pattern, "'">>))
              ELSE IF total = Bad THEN Raise("TypeError")
              ELSE IF files = Bad THEN Raise("TypeError")
              ELSE ReturnListed(
                      Returned("direct",
                        <<"Found ", ToString(total.v),
                          " files matching pattern '",
                          pattern, "' (displayed in panel above)">>),
                      IF total.v > DisplayLimit
                      THEN Min(files.v, DisplayLimit) ELSE files.v)
    ELSE Return(display_rich_error(
             <<"Error listing workspace files: HTTP ", StatusStr(r.status)>>))

\* Mutant: data['content'] instead of data.get('content', ...).
handle_read_file_KeyError(file_path, r) ==
    IF r.status = HTTP_OK THEN
        IF JsonError(r.body) # None THEN Raise(JsonError(r.body))
        ELSE IF r.body.other = "absent" THEN Raise("KeyError")
        ELSE Return(Returned("direct",
                 <<"File content for ", file_path, " displayed above">>))
    ELSE Return(display_rich_error(
             <<"Error reading file ", file_path, ": HTTP ", StatusStr(r.status)>>))

handle_read_file(file_path, r) ==
    IF r.status = HTTP_OK THEN
        IF JsonError(r.body) # None THEN Raise(JsonError(r.body))
        ELSE Return(Returned("direct",
                 <<"File content for ", file_path, " displayed above">>))
    ELSE Return(display_rich_error(
             <<"Error reading file ", file_path, ": HTTP ", StatusStr(r.status)>>))

WriteError(body) ==
    IF body.error = "absent" THEN "Unknown error" ELSE "data['error']"

\* Mutant: any 2xx status counts as success.
handle_create_file_Any2xx(filename, r) ==
    IF r.status >= 200 /\ r.status < 300 THEN
        Return(display_rich_success(<<"Successfully created file: ", filename>>))
    ELSE IF JsonError(r.body) # None THEN Raise(JsonError(r.body))
    ELSE Return(display_rich_error(
             <<"Error creating file ", filename, ": ", WriteError(r.body)>>))

handle_create_file(filename, r) ==
    IF r.status = HTTP_OK THEN
        Return(display_rich_success(<<"Successfully created file: ", filename>>))
    ELSE IF JsonError(r.body) # None THEN Raise(JsonError(r.body))
    ELSE Return(display_rich_error(
             <<"Error creating file ", filename, ": ", WriteError(r.body)>>))

handle_edit_file(filename, r) ==
    IF r.status = HTTP_OK THEN
        Return(display_rich_success(<<"Successfully edited file: ", filename>>))
    ELSE IF JsonError(r.body) # None THEN Raise(JsonError(r.body))
    ELSE Return(display_rich_error(
             <<"Error editing file ", filename, ": ", WriteError(r.body)>>))

handle(t, a, r) ==
    CASE t = GetContext -> handle_get_context(r)
      [] t = GetSelection -> handle_get_selection(r)
      [] t = ListFiles -> handle_list_files(a, r)
      [] t = ReadFile -> handle_read_file(a, r)
      [] t = CreateFile -> handle_create_file(a, r)
      [] t = EditFile -> handle_edit_file(a, r)

(***************************************************************************)
(* The CLI script.  An argument is a sequence of one-character strings; a  *)
(* printed line is a sequence of string pieces.                            *)
(***************************************************************************)
Digits == {"0", "1", "2", "3", "4", "5", "6", "7", "8", "9"}

DigitVal(c) ==
    CASE c = "0" -> 0 [] c = "1" -> 1 [] c = "2" -> 2 [] c = "3" -> 3
      [] c = "4" -> 4 [] c = "5" -> 5 [] c = "6" -> 6 [] c = "7" -> 7
      [] c = "8" -> 8 [] c = "9" -> 9

RECURSIVE LStrip(_)
LStrip(s) == IF s # <<>> /\ Head(s) = " " THEN LStrip(Tail(s)) ELSE s

RECURSIVE RStrip(_)
RStrip(s) ==
    IF s # <<>> /\ s[Len(s)] = " " THEN RStrip(SubSeq(s, 1, Len(s) - 1)) ELSE s

\* Digits, single underscores allowed between two digits.
DigitString(s) ==
    /\ s # <<>>
    /\ \A i \in 1..Len(s) : s[i] \in Digits \cup {"_"}
    /\ s[1] \in Digits /\ s[Len(s)] \in Digits
    /\ \A i \in 1..(Len(s) - 1) : ~(s[i] = "_" /\ s[i + 1] = "_")

RECURSIVE DigitsValue(_)
DigitsValue(s) ==
    IF s = <<>> THEN 0
    ELSE LET front == SubSeq(s, 1, Len(s) - 1)
             last == s[Len(s)]
         IN  IF last = "_" THEN DigitsValue(front)
             ELSE 10 * DigitsValue(front) + DigitVal(last)

\* Mutant: the sign is not accepted.
int_Unsigned(s) ==
    LET t == RStrip(LStrip(s))
    IN  IF DigitString(t) THEN [ok |-> TRUE, v |-> DigitsValue(t)]
        ELSE [ok |-> FALSE, v |-> 0]

\* Python's int(str): surrounding blanks, an optional sign, decimal digits.
\* ok = FALSE stands for ValueError.
int(s) ==
    LET t == RStrip(LStrip(s))
        signed == t # <<>> /\ t[1] \in {"+", "-"}
        d == IF signed THEN Tail(t) ELSE t
    IN  IF DigitString(d)
        THEN [ok |-> TRUE,
              v |-> IF signed /\ t[1] = "-" THEN 0 - DigitsValue(d)
                    ELSE DigitsValue(d)]
        ELSE [ok |-> FALSE, v |-> 0]

Usage == <<"Usage: python3 test3.py -p <name> OR python3 test3.py add <a> <b>">>
PleaseIntegers == <<"Please provide two integers for addition.">>

greet(name) == <<"Hello, ">> \o name \o <<"!">>

add(a, b) == <<ToString(a), " + ", ToString(b), " = ", ToString(a + b)>>

Dash_p == <<"-", "p">>
Add == <<"a", "d", "d">>
Script == <<"test3.py">>

\* sys.argv[i], Python's index.
Argv(av, i) == av[i + 1]

\* The lines the script prints for sys.argv = av.
main(av) ==
    IF Len(av) > 1 THEN
        IF Argv(av, 1) = Dash_p /\ Len(av) > 2 THEN <<greet(Argv(av, 2))>>
        ELSE IF Argv(av, 1) = Add /\ Len(av) > 3 THEN
            LET a == int(Argv(av, 2))
                b == int(Argv(av, 3))
            IN  IF a.ok /\ b.ok THEN <<add(a.v, b.v)>>
                ELSE <<PleaseIntegers>>
        ELSE <<Usage>>
    ELSE <<Usage>>

Tokens ==
    { Dash_p, Add, <<"b", "o", "b">>, <<"2">>, <<"-", "3">>, <<"0", "7">>,
      <<"+", "4">>, <<" ", "5">>, <<"1", "_", "0">>, <<"2", "x">>, <<>> }

RECURSIVE ArgLists(_)
ArgLists(n) ==
    IF n = 0 THEN {<<>>}
    ELSE LET shorter == ArgLists(n - 1)
         IN  shorter \cup
             {Append(l, t) : l \in {x \in shorter : Len(x) = n - 1}, t \in Tokens}

(***************************************************************************)
(* State machine                                                           *)
(***************************************************************************)
Init ==
    /\ pc = "idle"
    /\ tool = "none"
    /\ arg = "none"
    /\ codeOutcome = "none"
    /\ health = NoResponse
    /\ sock = "none"
    /\ code_available = FALSE
    /\ api_available = FALSE
    /\ perm = "none"
    /\ preview = NoResponse
    /\ response = NoResponse
    /\ exc = NoExc
    /\ result = NoResult
    /\ listed = 0
    /\ trace = <<>>
    /\ argv = <<>>
    /\ out = <<>>

\* The framework calls tool function t with argument a.
Invoke(t, a) ==
    /\ pc = "idle"
    /\ pc' = "check_code"
    /\ tool' = t
    /\ arg' = a
    /\ UNCHANGED <<codeOutcome, health, sock, code_available, api_available,
                   perm, preview, response, exc, result, listed, trace>>
    /\ UNCHANGED cliVars

\* check_code_command()
CheckCodeCommand ==
    /\ pc = "check_code"
    /\ \E o \in CodeOutcomes :
        /\ codeOutcome' = o
        /\ code_available' = check_code_command(o)
    /\ trace' = Append(trace, SubprocessEvent)
    /\ pc' = "check_api"
    /\ UNCHANGED <<tool, arg, health, sock, api_available, perm, preview,
                   response, exc, result, listed>>
    /\ UNCHANGED cliVars

\* Mutant: the socket fallback also runs on a non-200 status.
FallsBack_OnFailure(o) == o.kind = "raises" \/ o.status # HTTP_OK

\* The except branch of check_vscode_api is taken.
FallsBack(o) == o.kind = "raises"

\* check_vscode_api(): the GET /health of the try branch.
CheckVscodeApi ==
    /\ pc = "check_api"
    /\ \E o \in {RequestRaises} \cup {Response(s, NoBody) : s \in StatusCodes} :
        /\ health' = o
        /\ IF FallsBack(o)
           THEN pc' = "check_socket" /\ UNCHANGED api_available
           ELSE pc' = "availability" /\ api_available' = HealthStatusOk(o.status)
    /\ trace' = Append(trace, HttpEvent("GET", "/health"))
    /\ UNCHANGED <<tool, arg, codeOutcome, sock, code_available, perm, preview,
                   response, exc, result, listed>>
    /\ UNCHANGED cliVars

\* check_vscode_api(): the socket fallback of the except branch.
CheckSocket ==
    /\ pc = "check_socket"
    /\ \E o \in SockOutcomes :
        /\ sock' = o
        /\ api_available' = SocketOpen(o)
    /\ trace' = Append(trace, SocketEvent)
    /\ pc' = "availability"
    /\ UNCHANGED <<tool, arg, codeOutcome, health, code_available, perm,
                   preview, response, exc, result, listed>>
    /\ UNCHANGED cliVars

\* ensure_vscode_available() at the head of a wrapper's try block.
EnsureAvailable ==
    /\ pc = "availability"
    /\ tool \in Wrappers
    /\ LET e == ensure_vscode_available(code_available, api_available)
       IN  /\ exc' = e
           /\ pc' = IF e # NoExc THEN "except" ELSE AfterAvailability(tool)
    /\ UNCHANGED <<tool, arg, codeOutcome, health, sock, code_available,
                   api_available, perm, preview, response, result, listed,
                   trace>>
    /\ UNCHANGED cliVars

\* The body of vscode_health_check after its two probes.
HealthReport ==
    /\ pc = "availability"
    /\ tool = HealthCheck
    /\ result' = vscode_health_check(code_available, api_available)
    /\ pc' = "done"
    /\ UNCHANGED <<tool, arg, codeOutcome, health, sock, code_available,
                   api_available, perm, preview, response, exc, listed, trace>>
    /\ UNCHANGED cliVars

\* permission_manager.get_permission(...) and the early return on denial.
PermissionGate ==
    /\ pc = "perm"
    /\ \E o \in PermOutcomes :
        /\ perm' = o
        /\ IF o = "raises"
           THEN /\ exc' = Exception("Exception", <<>>)
                /\ pc' = "except"
                /\ UNCHANGED result
           ELSE IF PermissionAllows(o)
           THEN /\ pc' = AfterPermission(tool)
                /\ UNCHANGED <<exc, result>>
           ELSE /\ result' = display_rich_error(PermissionDenied(tool))
                /\ pc' = "done"
                /\ UNCHANGED exc
    /\ trace' = Append(trace, PermEvent(PermissionTypeOf(tool)))
    /\ UNCHANGED <<tool, arg, codeOutcome, health, sock, code_available,
                   api_available, preview, response, listed>>
    /\ UNCHANGED cliVars

\* Mutant: the try/except around the preview request is missing.
AfterPreview_Propagates(o) == IF o.kind = "raises" THEN "except" ELSE "request"

\* Position after the preview request: `except: pass`, and its response
\* is never looked at.
AfterPreview(o) == "request"

\* The optional GET /preview or GET /diff; its exception is swallowed.
Preview ==
    /\ pc = "preview"
    /\ \E o \in {RequestRaises} \cup {Response(s, NoBody) : s \in StatusCodes} :
        /\ preview' = o
        /\ pc' = AfterPreview(o)
    /\ trace' = Append(trace, HttpEvent("GET", PreviewPath(tool)))
    /\ UNCHANGED <<tool, arg, codeOutcome, health, sock, code_available,
                   api_available, perm, response, exc, result, listed>>
    /\ UNCHANGED cliVars

\* The request to the operation's endpoint.
Request ==
    /\ pc = "request"
    /\ \E o \in {RequestRaises} \cup
                {Response(s, b) : s \in StatusCodes, b \in Bodies(tool)} :
        /\ response' = o
        /\ IF o.kind = "raises"
           THEN exc' = Exception("RequestException", <<>>) /\ pc' = "except"
           ELSE UNCHANGED exc /\ pc' = "handle"
    /\ trace' = Append(trace, Endpoint(tool))
    /\ UNCHANGED <<tool, arg, codeOutcome, health, sock, code_available,
                   api_available, perm, preview, result, listed>>
    /\ UNCHANGED cliVars

\* The status test and the formatting of the response.
HandleResponse ==
    /\ pc = "handle"
    /\ LET h == handle(tool, arg, response)
       IN  /\ result' = h[1]
           /\ exc' = h[2]
           /\ listed' = h[3]
           /\ pc' = IF h[2] # NoExc THEN "except" ELSE "done"
    /\ UNCHANGED <<tool, arg, codeOutcome, health, sock, code_available,
                   api_available, perm, preview, response, trace>>
    /\ UNCHANGED cliVars

\* The except clauses of the tool function.
Except ==
    /\ pc = "except"
    /\ result' = Handler(tool, arg, exc)
    /\ pc' = "done"
    /\ UNCHANGED <<tool, arg, codeOutcome, health, sock, code_available,
                   api_available, perm, preview, response, exc, listed, trace>>
    /\ UNCHANGED cliVars

\* python3 test3.py args...
CliStart(args) ==
    /\ pc = "idle"
    /\ argv' = Script \o args
    /\ pc' = "cli_main"
    /\ UNCHANGED out
    /\ UNCHANGED toolVars

\* The __main__ block of test3.py.
CliMain ==
    /\ pc = "cli_main"
    /\ out' = main(argv)
    /\ pc' = "cli_done"
    /\ UNCHANGED argv
    /\ UNCHANGED toolVars

\* The invocation or the process is over; the next one starts afresh.
Finish ==
    /\ pc \in {"done", "cli_done"}
    /\ pc' = "idle"
    /\ tool' = "none"
    /\ arg' = "none"
    /\ codeOutcome' = "none"
    /\ health' = NoResponse
    /\ sock' = "none"
    /\ code_available' = FALSE
    /\ api_available' = FALSE
    /\ perm' = "none"
    /\ preview' = NoResponse
    /\ response' = NoResponse
    /\ exc' = NoExc
    /\ result' = NoResult
    /\ listed' = 0
    /\ trace' = <<>>
    /\ argv' = <<>>
    /\ out' = <<>>

Next ==
    \/ \E t \in VSCODE_TOOLS, a \in ToolArgs : Invoke(t, a)
    \/ CheckCodeCommand
    \/ CheckVscodeApi
    \/ CheckSocket
    \/ EnsureAvailable
    \/ HealthReport
    \/ PermissionGate
    \/ Preview
    \/ Request
    \/ HandleResponse
    \/ Except
    \/ \E args \in ArgLists(MaxArgs) : CliStart(args)
    \/ CliMain
    \/ Finish

Spec == Init /\ [][Next]_vars

\* Every call is synchronous and bounded by a timeout, so a started
\* invocation keeps taking steps.
FairSpec == Spec /\ WF_vars(Next)

(***************************************************************************)
(* Vocabulary of the properties                                            *)
(***************************************************************************)
Events(kind) == {i \in DOMAIN trace : trace[i].kind = kind}

\* Outbound HTTP requests issued after the availability probe.
OperationRequests ==
    {i \in DOMAIN trace : trace[i].kind = "http" /\ Path(trace[i]) # "/health"}

RequestsTo(paths) ==
    {i \in DOMAIN trace : trace[i].kind = "http" /\ Path(trace[i]) \in paths}

Posts == {i \in DOMAIN trace : trace[i].kind = "http" /\ Method(trace[i]) = "POST"}

Invoked == tool \in Wrappers
Done == pc = "done"

\* The raw outcomes of the two probes.
CodeUp == codeOutcome = "exit0"
ApiUp ==
    \/ health.kind = "response" /\ health.status = 200
    \/ health.kind = "raises" /\ sock = "connected"
Unreachable == health.kind = "raises" /\ sock \in {"refused", "raises"}

\* Both probes of the availability check have been run.
Probed == tool # "none" /\ pc \notin {"idle", "check_code", "check_api", "check_socket"}

IsError(r) == r.kind = "returned" /\ r.via = "display_rich_error"
IsSuccess(r) == r.kind = "returned" /\ r.via # "display_rich_error"

Got(status) == response.kind = "response" /\ response.status = status

(***************************************************************************)
(* C1. Every invocation of a tool wrapper ends by returning a string,      *)
(* whatever fails on the way: no state holds an exception that left the    *)
(* tool function, a finished invocation has returned, and every started    *)
(* invocation finishes.                                                    *)
(***************************************************************************)
C1_AlwaysReturnsString ==
    /\ [](Invoked => result.kind # "raised" /\ (Done => result.kind = "returned"))
    /\ Invoked ~> (Invoked /\ Done /\ result.kind = "returned")

C1_Witness ==
    /\ Invoked /\ Done
    /\ exc.type \in {"JSONDecodeError", "Exception", "RequestException"}
    /\ IsError(result)

(***************************************************************************)
(* C2. When GET /health raises and the TCP connect fails, a wrapper        *)
(* returns the availability message through display_rich_error, sends no   *)
(* request other than GET /health and does not consult the permission      *)
(* manager.                                                                *)
(***************************************************************************)
C2_UnreachableIsError ==
    (Invoked /\ Unreachable) =>
        /\ OperationRequests = {}
        /\ Events("perm") = {} /\ perm = "none"
        /\ pc \in {"availability", "except", "done"}
        /\ Done => /\ IsError(result)
                   /\ result.msg = IF CodeUp THEN MsgApi ELSE MsgBoth

C2_Witness == Invoked /\ Unreachable /\ Done /\ CodeUp /\ tool = ReadFile

(***************************************************************************)
(* C3.                                                                     *)
(***************************************************************************)
\* The fields the tool reads from the body are absent or of the type it
\* expects; vscode_create_file and vscode_edit_file do not read the body
\* of a 200 response.
WellTyped(t, b) ==
    \/ t \in {CreateFile, EditFile}
    \/ /\ b.shape = "dict"
       /\ b.selection # "nondict"
       /\ b.other \notin {"nondict", "nonsized", "badlines"}
       /\ b.total # Bad /\ b.files # Bad

Served ==
    /\ Invoked /\ Done /\ Got(200)
    /\ CodeUp /\ ApiUp
    /\ NeedsPermission(tool) => perm = "granted"

\* C3 as stated: after a passed probe, a granted permission and a 200
\* response with well-formed JSON, the wrapper returns a success string.
C3_Original == (Served /\ WellTyped(tool, response.body)) => IsSuccess(result)

NoFiles == tool = ListFiles /\ response.body.total \in {Absent, Num(0)}
NoEditor == tool = GetSelection /\ response.body.hasActiveEditor # "true"

\* C3 as amended: after a passed probe, a granted permission and a 200
\* response whose fields have the expected types, the wrapper returns a
\* success string, except that vscode_list_files with total 0 or missing
\* and vscode_get_selection without hasActiveEditor return an error string
\* through display_rich_error.
C3_SuccessOn200 ==
    (Served /\ WellTyped(tool, response.body)) =>
        IF NoFiles
        THEN result = display_rich_error(
                 <<"No files found matching pattern '", arg, "'">>)
        ELSE IF NoEditor
        THEN result = display_rich_error(<<"No active editor in VS Code">>)
        ELSE IsSuccess(result)

C3_Witness ==
    /\ Served /\ tool = ReadFile
    /\ response.body.shape = "dict" /\ response.body.other = "absent"
    /\ IsSuccess(result)

(***************************************************************************)
(* C4.                                                                     *)
(***************************************************************************)
Rank(e) ==
    CASE e.kind = "subprocess" -> 1
      [] e.kind = "socket" -> 3
      [] e.kind = "perm" -> 4
      [] e.kind = "http" ->
            IF Path(e) = "/health" THEN 2
            ELSE IF Path(e) \in {"/preview", "/diff"} THEN 5
            ELSE 6

\* Probe, then permission, then requests.
GateBeforeRequests ==
    /\ \A i, j \in DOMAIN trace :
          (i < j /\ Rank(trace[j]) < 5) => Rank(trace[i]) < Rank(trace[j])
    /\ \A i \in DOMAIN trace :
          Rank(trace[i]) >= 4 =>
              /\ \E j \in 1..(i - 1) : Rank(trace[j]) = 1
              /\ \E j \in 1..(i - 1) : Rank(trace[j]) = 2
    /\ \A i \in DOMAIN trace :
          /\ Rank(trace[i]) = 4 =>
                /\ tool \in {ReadFile, CreateFile, EditFile}
                /\ \A j \in 1..(i - 1) : Rank(trace[j]) < 4
          /\ (Rank(trace[i]) >= 5 /\ tool \in {ReadFile, CreateFile, EditFile})
                => \E j \in 1..(i - 1) : Rank(trace[j]) = 4

\* C4 as stated: probe, permission gate, then a single outbound request;
\* never more than one outbound request after the probe.
C4_Original == GateBeforeRequests /\ Cardinality(OperationRequests) <= 1

\* C4 as amended: probe, then the permission gate (read, create, edit),
\* then for create and edit one preview request (GET /preview, GET /diff),
\* then a single request to the operation's endpoint, which is the last
\* call of the invocation; at most two outbound requests after the probe,
\* at most one for the tools without a preview.
C4_StepOrder ==
    /\ GateBeforeRequests
    /\ \A i, j \in DOMAIN trace : i < j => Rank(trace[i]) < Rank(trace[j])
    /\ \A i \in DOMAIN trace :
          /\ Rank(trace[i]) = 5 =>
                \/ tool = CreateFile /\ trace[i] = HttpEvent("GET", "/preview")
                \/ tool = EditFile /\ trace[i] = HttpEvent("GET", "/diff")
          /\ Rank(trace[i]) = 6 =>
                /\ Invoked
                /\ tool \in {CreateFile, EditFile} =>
                      \E j \in 1..(i - 1) : Rank(trace[j]) = 5
    /\ Cardinality(OperationRequests)
          <= (IF tool \in {CreateFile, EditFile} THEN 2 ELSE 1)

C4_Witness ==
    /\ Done /\ tool = CreateFile
    /\ Cardinality(OperationRequests) = 2
    /\ Cardinality(Events("perm")) = 1

(***************************************************************************)
(* C5. A response of the operation's endpoint with a status other than 200 *)
(* makes the wrapper return an error string through display_rich_error,    *)
(* whatever the body is.                                                   *)
(***************************************************************************)
C5_Non200IsError ==
    (Invoked /\ Done /\ response.kind = "response" /\ response.status # 200)
        => IsError(result)

C5_Witness ==
    /\ Invoked /\ Done /\ Got(201) /\ tool = EditFile
    /\ response.body = NotJson
    /\ IsError(result)

(***************************************************************************)
(* C6. The listing printed by vscode_list_files holds at most 50 entries,  *)
(* whatever 'files' and 'total' the response carries.                      *)
(***************************************************************************)
C6_AtMost50Listed == listed <= 50

(***************************************************************************)
(* C7.                                                                     *)
(***************************************************************************)
\* The operands Python's int() accepts among the tokens, with their values.
IntegerTokens ==
    { <<<<"2">>, 2>>, <<<<"-", "3">>, 0 - 3>>, <<<<"0", "7">>, 7>>,
      <<<<"+", "4">>, 4>>, <<<<" ", "5">>, 5>>, <<<<"1", "_", "0">>, 10>> }

IsInteger(tok) == \E p \in IntegerTokens : p[1] = tok
ValueOf(tok) == (CHOOSE p \in IntegerTokens : p[1] = tok)[2]

CliArgs == Tail(argv)
GreetCall == Len(CliArgs) >= 2 /\ CliArgs[1] = <<"-", "p">>
AddCall == Len(CliArgs) >= 3 /\ CliArgs[1] = <<"a", "d", "d">>
AddIntegers == AddCall /\ IsInteger(CliArgs[2]) /\ IsInteger(CliArgs[3])

SumLine(a, b) == <<ToString(a), " + ", ToString(b), " = ", ToString(a + b)>>
UsageLine ==
    <<"Usage: python3 test3.py -p <name> OR python3 test3.py add <a> <b>">>

\* C7 as stated: one line; the greeting, the sum, and the usage message in
\* every other case, 'add' with a non-integer operand included.
C7_Original ==
    pc = "cli_done" =>
        /\ Len(out) = 1
        /\ out[1] = IF GreetCall THEN <<"Hello, ">> \o CliArgs[2] \o <<"!">>
                    ELSE IF AddIntegers
                    THEN SumLine(ValueOf(CliArgs[2]), ValueOf(CliArgs[3]))
                    ELSE UsageLine

\* C7 as amended: one print call; the greeting for '-p <name>', the sum
\* for 'add <a> <b>' with two integers, 'Please provide two integers for
\* addition.' for 'add' with two operands of which one is not an integer,
\* and the usage message in every other case.
C7_CliOutput ==
    pc = "cli_done" =>
        /\ Len(out) = 1
        /\ out[1] = IF GreetCall THEN <<"Hello, ">> \o CliArgs[2] \o <<"!">>
                    ELSE IF AddIntegers
                    THEN SumLine(ValueOf(CliArgs[2]), ValueOf(CliArgs[3]))
                    ELSE IF AddCall
                    THEN <<"Please provide two integers for addition.">>
                    ELSE UsageLine

C7_Witness ==
    /\ pc = "cli_done" /\ AddCall /\ ~AddIntegers
    /\ out = <<<<"Please provide two integers for addition.">>>>

(***************************************************************************)
(* C8. In read, create and edit the permission manager is consulted once,  *)
(* after the availability probe succeeded; on denial the wrapper returns   *)
(* its 'Permission denied' error and sends nothing to /file/read,          *)
(* /file/create, /file/edit, /preview or /diff; a POST is sent only after  *)
(* a passed probe and a granted FILE_WRITE permission.                     *)
(***************************************************************************)
DeniedStrings ==
    [t \in {ReadFile, CreateFile, EditFile} |->
        IF t = ReadFile THEN "Permission denied for file read operation"
        ELSE IF t = CreateFile THEN "Permission denied for file creation"
        ELSE "Permission denied for file edit operation"]

C8_PermissionGate ==
    /\ Cardinality(Events("perm")) <= 1
    /\ Events("perm") # {} =>
          /\ tool \in {ReadFile, CreateFile, EditFile}
          /\ CodeUp /\ ApiUp
          /\ perm # "none"
    /\ (tool \in {ReadFile, CreateFile, EditFile} /\ Probed /\ CodeUp /\ ApiUp
        /\ pc \notin {"availability", "perm"})
          => Cardinality(Events("perm")) = 1
    /\ (tool \in {ReadFile, CreateFile, EditFile} /\ perm = "denied") =>
          /\ Done
          /\ result = display_rich_error(<<DeniedStrings[tool]>>)
          /\ RequestsTo({"/file/read", "/file/create", "/file/edit",
                         "/preview", "/diff"}) = {}
    /\ \A i \in Posts :
          /\ CodeUp /\ ApiUp /\ perm = "granted"
          /\ \E j \in 1..(i - 1) : trace[j] = PermEvent("FILE_WRITE")

C8_Witness ==
    /\ Done /\ tool = EditFile /\ perm = "denied"
    /\ result.msg = <<"Permission denied for file edit operation">>

(***************************************************************************)
(* C9. The availability check answers True exactly when both probes        *)
(* succeed, always runs both probes, and names the three failure cases     *)
(* apart; ensure_vscode_available raises exactly when the answer is False; *)
(* vscode_health_check says 'available and ready' in the same cases.       *)
(***************************************************************************)
C9_Availability ==
    Probed =>
        /\ Events("subprocess") # {} /\ RequestsTo({"/health"}) # {}
        /\ (Invoked /\ pc # "availability") =>
              /\ (exc.type = "VSCodeAvailabilityError") <=> ~(CodeUp /\ ApiUp)
              /\ (~CodeUp /\ ~ApiUp) => exc.msg = MsgBoth
              /\ (~CodeUp /\ ApiUp) => exc.msg = MsgCode
              /\ (CodeUp /\ ~ApiUp) => exc.msg = MsgApi
        /\ Cardinality({MsgBoth, MsgCode, MsgApi, MsgOk}) = 4
        /\ (tool = HealthCheck /\ Done) =>
              /\ result.kind = "returned"
              /\ (result.msg = <<"VS Code is available and ready for use">>)
                    <=> (CodeUp /\ ApiUp)
              /\ (result.msg = <<"VS Code is available and ready for use">>)
                    <=> check_vscode_availability(code_available, api_available)[1]

C9_Witness ==
    /\ Invoked /\ Done /\ ~CodeUp /\ ApiUp
    /\ exc = Exception("VSCodeAvailabilityError", MsgCode)

(***************************************************************************)
(* C10. check_vscode_api never raises; it answers True exactly when GET    *)
(* /health returns 200, or GET /health raises and the TCP connect          *)
(* succeeds; on a non-200 status it answers False without the socket       *)
(* fallback.                                                               *)
(***************************************************************************)
C10_ApiProbe ==
    /\ Probed => (api_available <=> ApiUp)
    /\ pc = "availability" => exc = NoExc /\ result = NoResult
    /\ health.kind = "response" =>
          /\ Events("socket") = {} /\ sock = "none"
          /\ pc # "check_socket"
          /\ (Probed /\ health.status # 200) => ~api_available
    /\ (health.kind = "raises" /\ Probed) => Cardinality(Events("socket")) = 1

C10_Witness ==
    /\ pc = "availability" /\ health.kind = "raises" /\ sock = "connected"
    /\ api_available

(***************************************************************************)
(* C11. In vscode_create_file and vscode_edit_file the preview request     *)
(* (GET /preview, GET /diff) is optional: whether it succeeds, returns a   *)
(* non-200 status or raises, the POST to /file/create or /file/edit is     *)
(* then issued exactly once, after the preview, and the returned string    *)
(* is determined by the outcome of the POST alone.                         *)
(***************************************************************************)
Writers == {CreateFile, EditFile}

PostPath == [t \in Writers |-> IF t = CreateFile THEN "/file/create" ELSE "/file/edit"]
PreviewOf == [t \in Writers |-> IF t = CreateFile THEN "/preview" ELSE "/diff"]
Verb == [t \in Writers |-> IF t = CreateFile THEN "creat" ELSE "edit"]

\* The string a writer returns, as a function of the POST's outcome.
PostResult(t, a, r) ==
    IF r.kind = "raises"
    THEN display_rich_error(
             <<"Error " \o Verb[t] \o "ing file ", a, ": ", "str", "RequestException">>)
    ELSE IF r.status = 200
    THEN display_rich_success(<<"Successfully " \o Verb[t] \o "ed file: ", a>>)
    ELSE IF r.body.shape = "notjson"
    THEN display_rich_error(
             <<"Error " \o Verb[t] \o "ing file ", a, ": ", "str", "JSONDecodeError">>)
    ELSE IF r.body.shape = "nondict"
    THEN display_rich_error(
             <<"Error " \o Verb[t] \o "ing file ", a, ": ", "str", "AttributeError">>)
    ELSE display_rich_error(
             <<"Error " \o Verb[t] \o "ing file ", a, ": ",
               IF r.body.error = "absent" THEN "Unknown error" ELSE "data['error']">>)

C11_PreviewOptional ==
    tool \in Writers =>
        /\ Cardinality(RequestsTo({"/preview", "/diff"})) <= 1
        /\ Cardinality(Posts) <= 1
        /\ \A i \in Posts :
              /\ trace[i] = HttpEvent("POST", PostPath[tool])
              /\ preview.kind # "none"
              /\ \E j \in 1..(i - 1) : trace[j] = HttpEvent("GET", PreviewOf[tool])
        /\ (preview.kind # "none" /\ pc # "request") =>
              /\ Cardinality(Posts) = 1
              /\ response.kind # "none"
              /\ pc \in {"handle", "except", "done"}
        /\ (preview.kind # "none" /\ Done) => result = PostResult(tool, arg, response)

C11_Witness ==
    /\ Done /\ tool = EditFile
    /\ preview.kind = "raises"
    /\ Got(200) /\ IsSuccess(result)
    /\ Cardinality(Posts) = 1

====
